---------------------------- MODULE Spec2Model ----------------------------
(***************************************************************************)
(* Sequential download queue of the video downloader (src/main.py):        *)
(* the DownloadWorker that runs one download on a background QThread and   *)
(* the MainWindow handlers that own the queue table and start the next     *)
(* worker.  Text is kept as text: messages, status texts and progress      *)
(* texts are strings, and the string functions the code calls (lower, in,  *)
(* strip, splitlines, the f-string number formats) are computed.           *)
(*                                                                         *)
(* The log box, the progress bar and the buttons' enabled state are        *)
(* display only and not part of the state, so every handler can be called  *)
(* at any time, as the queue operations of the specification can.  The GUI *)
(* thread handles queued signal deliveries in the order they were posted;  *)
(* user actions come between them at any point.  The worker's thread runs  *)
(* beside the GUI thread, one statement of run() at a time.                *)
(***************************************************************************)
EXTENDS Integers, Sequences, FiniteSets, TLC

(***************************************************************************)
(* Bounds of the model.                                                    *)
(***************************************************************************)
\* rows the queue table may hold
MaxEntries == 2
\* worker/thread objects that may exist at once (the code creates one at a
\* time; a second slot lets an overlap show if the code allowed one)
MaxWorkers == 2
\* progress-hook invocations the extraction library makes per download
MaxHooks == 1
\* rows of the tables the removal handlers are applied to
MaxTableRows == 3

(***************************************************************************)
(* Python string functions.                                                *)
(***************************************************************************)
UpperChars == "ABCDEFGHIJKLMNOPQRSTUVWXYZ"
LowerChars == "abcdefghijklmnopqrstuvwxyz"
Whitespace == {" ", "\t", "\n", "\r"}
LineBreaks == {"\n", "\r"}

CharAt(s, i) == SubSeq(s, i, i)

\* str.lower() of one character
LowerChar(c) ==
    IF \E i \in 1..Len(UpperChars) : CharAt(UpperChars, i) = c
    THEN CharAt(LowerChars, CHOOSE i \in 1..Len(UpperChars) : CharAt(UpperChars, i) = c)
    ELSE c

RECURSIVE LowerFrom(_, _)
LowerFrom(s, i) ==
    IF i > Len(s) THEN "" ELSE LowerChar(CharAt(s, i)) \o LowerFrom(s, i + 1)

\* needle in hay
Contains(hay, needle) ==
    \E i \in 0..(Len(hay) - Len(needle)) : SubSeq(hay, i + 1, i + Len(needle)) = needle

\* text.strip()
Strip(s) ==
    LET nonWs == {i \in 1..Len(s) : CharAt(s, i) \notin Whitespace}
        Min(S) == CHOOSE m \in S : \A n \in S : m <= n
        Max(S) == CHOOSE m \in S : \A n \in S : m >= n
    IN IF nonWs = {} THEN "" ELSE SubSeq(s, Min(nonWs), Max(nonWs))

\* text.splitlines(): the lines between line breaks ("\r\n" is one break),
\* with no empty last line after a trailing break
RECURSIVE SplitFrom(_, _, _)
SplitFrom(s, start, i) ==
    IF i > Len(s)
    THEN IF start > Len(s) THEN <<>> ELSE <<SubSeq(s, start, Len(s))>>
    ELSE IF CharAt(s, i) \in LineBreaks
         THEN LET skip == IF CharAt(s, i) = "\r" /\ i < Len(s) /\ CharAt(s, i + 1) = "\n"
                          THEN 2 ELSE 1
              IN <<SubSeq(s, start, i - 1)>> \o SplitFrom(s, i + skip, i + skip)
         ELSE SplitFrom(s, start, i + 1)

SplitLines(s) == SplitFrom(s, 1, 1)

Digits == "0123456789"

\* str(n) for n >= 0
RECURSIVE IntStr(_)
IntStr(n) ==
    IF n < 10 THEN CharAt(Digits, n + 1)
    ELSE IntStr(n \div 10) \o CharAt(Digits, (n % 10) + 1)

RECURSIVE Pow10(_)
Pow10(d) == IF d = 0 THEN 1 ELSE 10 * Pow10(d - 1)

RECURSIVE ZeroPad(_, _)
ZeroPad(s, d) == IF Len(s) >= d THEN s ELSE ZeroPad("0" \o s, d)

\* f"{x:.<d>f}" for the number x = num/den >= 0: d decimals, round half even
FormatFixed(num, den, d) ==
    LET scaled == num * Pow10(d)
        q == scaled \div den
        r == scaled % den
        rounded == IF 2 * r > den THEN q + 1
                   ELSE IF 2 * r = den THEN q + (q % 2)
                   ELSE q
    IN IntStr(rounded \div Pow10(d)) \o "." \o ZeroPad(IntStr(rounded % Pow10(d)), d)

\* sanitize_filename: runs of \ / : * ? " < > | become "_", then strip, or "video"
ForbiddenChars == {"\\", "/", ":", "*", "?", "\"", "<", ">", "|"}

RECURSIVE SanitizeFrom(_, _, _)
SanitizeFrom(s, i, inRun) ==
    IF i > Len(s) THEN ""
    ELSE IF CharAt(s, i) \in ForbiddenChars
         THEN (IF inRun THEN "" ELSE "_") \o SanitizeFrom(s, i + 1, TRUE)
         ELSE CharAt(s, i) \o SanitizeFrom(s, i + 1, FALSE)

sanitize_filename(name) ==
    LET t == Strip(SanitizeFrom(name, 1, FALSE)) IN IF t = "" THEN "video" ELSE t

(***************************************************************************)
(* Inputs.                                                                 *)
(***************************************************************************)
\* keys of QUALITY_PRESETS the global combo box can show
QUALITY_PRESETS == {"Best (Video + Audio)", "1080p (MP4)", "720p (MP4)", "Audio Only (MP3)"}
\* QUALITY_PRESETS[name]: the configuration of a preset
PresetTable ==
    [name \in QUALITY_PRESETS |->
        CASE name = "Best (Video + Audio)" -> [format |-> "best"]
          [] name = "1080p (MP4)" ->
                [format |-> "bestvideo[height<=1080]+bestaudio/best[height<=1080]/best",
                 merge_output_format |-> "mp4"]
          [] name = "720p (MP4)" ->
                [format |-> "bestvideo[height<=720]+bestaudio/best[height<=720]/best",
                 merge_output_format |-> "mp4"]
          [] name = "Audio Only (MP3)" ->
                [format |-> "bestaudio/best",
                 postprocessors |-> <<[key |-> "FFmpegExtractAudio", preferredcodec |-> "mp3",
                                       preferredquality |-> "192"]>>]]

\* the selections of the global combo box the model enqueues with
Qualities == {"720p (MP4)"}
\* what the user may have typed into url_input when "Add To Queue" is clicked
UrlTexts == {"  ", " a ", "a\n \na"}
\* what the user may put into output_input
OutputDirs == {"  ", "/out"}
\* DownloadError messages of the extraction library
ExtractorErrors == {"ERROR: Unsupported URL", "ERROR: Upload CANCELLED by owner"}
\* messages of other exceptions (OSError of makedirs, any other fault)
OtherErrors == {"Permission denied"}
\* the messages run() can give to finished.emit (lines 135-145)
FinishedMessages ==
    {"Download canceled.", "Download completed successfully."}
    \cup {"Download failed: " \o text : text \in ExtractorErrors}
    \cup {"Error: " \o text : text \in OtherErrors}

\* message.lower() of each of these messages, computed once
Lowered == [message \in FinishedMessages |-> LowerFrom(message, 1)]

\* message.lower()
Lower(s) == IF s \in FinishedMessages THEN Lowered[s] ELSE LowerFrom(s, 1)

\* titles the extraction library reports
Titles == {"a/b"}
\* the dictionaries the extraction library passes to the progress hook
ProgressData ==
    { [status |-> "downloading", downloaded_bytes |-> 3, total_bytes |-> 0,
       total_bytes_estimate |-> 2, speed |-> 2097152, eta |-> 7],
      [status |-> "downloading", downloaded_bytes |-> 1],
      [status |-> "finished"] }

(***************************************************************************)
(* State.                                                                  *)
(***************************************************************************)
VARIABLES
    entries,               \* queue_table rows: [url, quality, status, progress] and
                           \* quality_enabled, whether the row's combo box is enabled
    queue_running,         \* MainWindow.queue_running
    stop_queue_requested,  \* MainWindow.stop_queue_requested
    current_row,           \* MainWindow.current_row, 1-based; NoRow for None
    worker,                \* MainWindow.worker: a slot of tasks, NoWorker for None
    thread,                \* MainWindow.thread: a slot of tasks, NoWorker for None
    output_input,          \* text of the output folder field
    status_label,          \* [text, state] last given to set_status
    tasks,                 \* the DownloadWorker/QThread pairs that exist
    events                 \* queued signal deliveries waiting in the GUI thread

vars == <<entries, queue_running, stop_queue_requested, current_row, worker, thread,
          output_input, status_label, tasks, events>>

NoRow == 0
NoWorker == 0
Slots == 1..MaxWorkers

\* a slot holding no worker/thread object; ydl_opts holds the format keys of the
\* options run() gives to YoutubeDL, none before run() has set them
NoTask == [pc |-> "none", url |-> "", output_dir |-> "", quality_preset |-> "",
           cancelled |-> FALSE, exc |-> "", hooks |-> 0, ydl_opts |-> <<>>]

\* DownloadWorker.__init__ then QThread.start(): run() is about to begin
DownloadWorker(url, output_dir, quality) ==
    [pc |-> "L100", url |-> url, output_dir |-> output_dir, quality_preset |-> quality,
     cancelled |-> FALSE, exc |-> "", hooks |-> 0, ydl_opts |-> <<>>]

\* a thread exists from QThread.start() until it has emitted QThread.finished
Live(t) == tasks[t].pc \notin {"none", "finished"}

Init ==
    /\ entries = <<>>
    /\ queue_running = FALSE
    /\ stop_queue_requested = FALSE
    /\ current_row = NoRow
    /\ worker = NoWorker
    /\ thread = NoWorker
    /\ output_input = "/out"
    /\ status_label = [text |-> "Ready", state |-> "idle"]
    /\ tasks = [t \in Slots |-> NoTask]
    /\ events = <<>>

set_status(message, state) == status_label' = [text |-> message, state |-> state]

(***************************************************************************)
(* MainWindow: the queue table.                                            *)
(***************************************************************************)
\* _build_row_quality_combo: the row's combo shows the preset, or the default
build_row_quality_combo(quality) ==
    IF quality \in QUALITY_PRESETS THEN quality ELSE "Best (Video + Audio)"

\* _append_queue_row skipping a URL the table holds already
append_queue_row_once(rows, url, quality) ==
    IF \E r \in 1..Len(rows) : rows[r].url = url
    THEN rows
    ELSE Append(rows, [url |-> url, quality |-> build_row_quality_combo(quality),
                       status |-> "Queued", progress |-> "0%", quality_enabled |-> TRUE])

\* _append_queue_row; a QComboBox is enabled when created
append_queue_row(rows, url, quality) ==
    Append(rows, [url |-> url, quality |-> build_row_quality_combo(quality),
                  status |-> "Queued", progress |-> "0%", quality_enabled |-> TRUE])

RECURSIVE AppendAll(_, _, _)
AppendAll(rows, urls, quality) ==
    IF urls = <<>> THEN rows
    ELSE AppendAll(append_queue_row(rows, Head(urls), quality), Tail(urls), quality)

\* the list comprehension of enqueue_urls: stripped non-blank lines
RECURSIVE NonBlankLines(_)
NonBlankLines(lines) ==
    IF lines = <<>> THEN <<>>
    ELSE IF Strip(Head(lines)) # "" THEN <<Strip(Head(lines))>> \o NonBlankLines(Tail(lines))
         ELSE NonBlankLines(Tail(lines))

enqueue_urls(text, quality) ==
    LET raw_text == Strip(text)
        urls == NonBlankLines(SplitLines(raw_text))
    IN IF raw_text = ""
       THEN UNCHANGED vars
       ELSE /\ Len(entries) + Len(urls) <= MaxEntries   \* bound of the table
            /\ entries' = AppendAll(entries, urls, quality)
            /\ set_status("Added " \o IntStr(Len(urls)) \o " item(s) to queue.", "idle")
            /\ UNCHANGED <<queue_running, stop_queue_requested, current_row, worker,
                           thread, output_input, tasks, events>>

\* _next_queued_row taking a Failed row as well as a Queued one
next_queued_row_retrying_failed(rows) ==
    IF \E r \in 1..Len(rows) : rows[r].status \in {"Queued", "Failed"}
    THEN CHOOSE r \in 1..Len(rows) :
            /\ rows[r].status \in {"Queued", "Failed"}
            /\ \A q \in 1..(r - 1) : rows[q].status \notin {"Queued", "Failed"}
    ELSE NoRow

\* _next_queued_row scanning the rows from the last to the first
next_queued_row_from_end(rows) ==
    IF \E r \in 1..Len(rows) : rows[r].status = "Queued"
    THEN CHOOSE r \in 1..Len(rows) :
            /\ rows[r].status = "Queued"
            /\ \A q \in (r + 1)..Len(rows) : rows[q].status # "Queued"
    ELSE NoRow

\* _next_queued_row, 1-based; NoRow for None
next_queued_row(rows) ==
    IF \E r \in 1..Len(rows) : rows[r].status = "Queued"
    THEN CHOOSE r \in 1..Len(rows) :
            /\ rows[r].status = "Queued"
            /\ \A q \in 1..(r - 1) : rows[q].status # "Queued"
    ELSE NoRow

\* the user edits the output folder field (typing, the clear button, choose_folder)
edit_output_input(text) ==
    /\ output_input # text
    /\ output_input' = text
    /\ UNCHANGED <<entries, queue_running, stop_queue_requested, current_row, worker,
                   thread, status_label, tasks, events>>

(***************************************************************************)
(* MainWindow: running the queue.                                          *)
(***************************************************************************)
\* _set_quality_editable, for the combo boxes of the rows
set_quality_editable(rows, enabled) ==
    [r \in 1..Len(rows) |-> [rows[r] EXCEPT !.quality_enabled = enabled]]

\* the user picks a preset in the combo box of a row, which an enabled combo
\* box allows
edit_row_quality(row, quality) ==
    /\ entries[row].quality_enabled
    /\ entries[row].quality # quality
    /\ entries' = [entries EXCEPT ![row].quality = quality]
    /\ UNCHANGED <<queue_running, stop_queue_requested, current_row, worker, thread,
                   output_input, status_label, tasks, events>>

\* _finish_queue leaving stop_queue_requested as it finds it
finish_queue_keeping_stop(message, state) ==
    /\ queue_running' = FALSE
    /\ UNCHANGED stop_queue_requested
    /\ current_row' = NoRow
    /\ set_status(message, state)

\* _finish_queue, but for its call of _set_quality_editable, which is with the
\* rows in _start_next_item
finish_queue(message, state) ==
    /\ queue_running' = FALSE
    /\ stop_queue_requested' = FALSE
    /\ current_row' = NoRow
    /\ set_status(message, state)

\* the slot the next QThread()/DownloadWorker() pair is created in
FreeSlot(ts) == CHOOSE t \in Slots : ts[t].pc = "none" /\ \A u \in 1..(t - 1) : ts[u].pc # "none"

\* _start_next_item looking for a Queued row before it tests the stop flag
start_next_item_searching_first(rows, stop, wk, ts) ==
    IF next_queued_row(rows) = NoRow
    THEN /\ finish_queue("Queue completed.", "success")
         /\ worker' = wk /\ thread' = wk /\ tasks' = ts
         /\ entries' = set_quality_editable(rows, TRUE)
    ELSE IF stop
    THEN /\ finish_queue("Queue stopped.", "warning")
         /\ worker' = wk /\ thread' = wk /\ tasks' = ts
         /\ entries' = set_quality_editable(rows, TRUE)
    ELSE LET next_row == next_queued_row(rows)
             output_dir == Strip(output_input)
             url == rows[next_row].url
             quality == rows[next_row].quality
         IN /\ \E t \in Slots : ts[t].pc = "none"
            /\ current_row' = next_row
            /\ entries' = [rows EXCEPT ![next_row].status = "Downloading",
                                       ![next_row].progress = "0%"]
            /\ set_status("Downloading item " \o IntStr(next_row) \o "/"
                          \o IntStr(Len(rows)) \o " (" \o quality \o ")", "active")
            /\ thread' = FreeSlot(ts)
            /\ worker' = FreeSlot(ts)
            /\ tasks' = [ts EXCEPT ![FreeSlot(ts)] = DownloadWorker(url, output_dir, quality)]
            /\ queue_running' = TRUE
            /\ stop_queue_requested' = FALSE

\* _start_next_item, called with the table rows, the stop flag, the worker/thread
\* attributes and the worker objects as the caller left them.  The branch for a
\* row without a URL item (lines 922-927) cannot be taken: _append_queue_row
\* gives every row one.
start_next_item(rows, stop, wk, ts) ==
    IF stop
    THEN /\ finish_queue("Queue stopped.", "warning")
         /\ worker' = wk /\ thread' = wk /\ tasks' = ts
         /\ entries' = set_quality_editable(rows, TRUE)
    ELSE IF next_queued_row(rows) = NoRow
    THEN /\ finish_queue("Queue completed.", "success")
         /\ worker' = wk /\ thread' = wk /\ tasks' = ts
         /\ entries' = set_quality_editable(rows, TRUE)
    ELSE LET next_row == next_queued_row(rows)
             output_dir == Strip(output_input)
             url == rows[next_row].url
             quality == rows[next_row].quality
         IN /\ \E t \in Slots : ts[t].pc = "none"   \* bound of the objects alive
            /\ current_row' = next_row
            /\ entries' = [rows EXCEPT ![next_row].status = "Downloading",
                                       ![next_row].progress = "0%"]
            /\ set_status("Downloading item " \o IntStr(next_row) \o "/"
                          \o IntStr(Len(rows)) \o " (" \o quality \o ")", "active")
            /\ thread' = FreeSlot(ts)
            /\ worker' = FreeSlot(ts)
            /\ tasks' = [ts EXCEPT ![FreeSlot(ts)] = DownloadWorker(url, output_dir, quality)]
            /\ queue_running' = TRUE
            /\ stop_queue_requested' = FALSE

\* start_queue without the test of the output folder
start_queue_without_folder ==
    IF queue_running
    THEN UNCHANGED vars
    ELSE IF next_queued_row(entries) = NoRow
    THEN UNCHANGED vars
    ELSE /\ start_next_item(set_quality_editable(entries, FALSE), FALSE, worker, tasks)
         /\ UNCHANGED <<output_input, events>>

\* start_queue without the test of queue_running
start_queue_while_running ==
    IF Strip(output_input) = ""
    THEN UNCHANGED vars
    ELSE IF next_queued_row(entries) = NoRow
    THEN UNCHANGED vars
    ELSE /\ start_next_item(set_quality_editable(entries, FALSE), FALSE, worker, tasks)
         /\ UNCHANGED <<output_input, events>>

start_queue ==
    IF queue_running
    THEN UNCHANGED vars
    ELSE IF Strip(output_input) = ""
    THEN UNCHANGED vars
    ELSE IF next_queued_row(entries) = NoRow
    THEN UNCHANGED vars
    ELSE /\ start_next_item(set_quality_editable(entries, FALSE), FALSE, worker, tasks)
         /\ UNCHANGED <<output_input, events>>

\* DownloadWorker.cancel
cancel(ts, t) == [ts EXCEPT ![t].cancelled = TRUE]

\* cancel_download cancelling the current item without asking the queue to stop
cancel_download_item_only ==
    IF worker # NoWorker
    THEN /\ tasks' = cancel(tasks, worker)
         /\ set_status("Cancelling current item...", "warning")
         /\ UNCHANGED <<entries, queue_running, stop_queue_requested, current_row, worker,
                        thread, output_input, events>>
    ELSE IF queue_running
    THEN /\ stop_queue_requested' = TRUE
         /\ set_status("Stopping queue...", "warning")
         /\ UNCHANGED <<entries, queue_running, current_row, worker, thread,
                        output_input, tasks, events>>
    ELSE UNCHANGED vars

cancel_download ==
    IF worker # NoWorker
    THEN /\ stop_queue_requested' = TRUE
         /\ tasks' = cancel(tasks, worker)
         /\ set_status("Cancelling current item...", "warning")
         /\ UNCHANGED <<entries, queue_running, current_row, worker, thread,
                        output_input, events>>
    ELSE IF queue_running
    THEN /\ stop_queue_requested' = TRUE
         /\ set_status("Stopping queue...", "warning")
         /\ UNCHANGED <<entries, queue_running, current_row, worker, thread,
                        output_input, tasks, events>>
    ELSE UNCHANGED vars

(***************************************************************************)
(* MainWindow: the slots the worker's and the thread's signals are         *)
(* connected to.  The worker lives in its own thread, so every delivery is *)
(* queued: the GUI thread handles the deliveries in the order posted.      *)
(***************************************************************************)
Delivered(sig) == events # <<>> /\ Head(events).sig = sig

\* f"{percent:.1f}%" of the float percent, kept as the fraction <<num, den>>
PercentText(percent) == FormatFixed(percent[1], percent[2], 1) \o "%"

\* on_progress writing to the last row that is not finished instead of the row
\* current_row names
on_progress_last_unfinished ==
    /\ Delivered("progress")
    /\ LET percent == Head(events).percent
           message == Head(events).message
           row == IF \E r \in 1..Len(entries) : entries[r].status \in {"Queued", "Downloading"}
                  THEN CHOOSE r \in 1..Len(entries) :
                          /\ entries[r].status \in {"Queued", "Downloading"}
                          /\ \A q \in (r + 1)..Len(entries) :
                                entries[q].status \notin {"Queued", "Downloading"}
                  ELSE NoRow
       IN IF row # NoRow
          THEN /\ entries' = [entries EXCEPT ![row].progress = PercentText(percent)]
               /\ set_status("Item " \o IntStr(row) \o ": " \o message, "active")
          ELSE /\ set_status(message, "active")
               /\ UNCHANGED entries
    /\ events' = Tail(events)
    /\ UNCHANGED <<queue_running, stop_queue_requested, current_row, worker, thread,
                   output_input, tasks>>

on_progress ==
    /\ Delivered("progress")
    /\ LET percent == Head(events).percent
           message == Head(events).message
           row == current_row
       IN IF row # NoRow
          THEN /\ entries' = [entries EXCEPT ![row].progress = PercentText(percent)]
               /\ set_status("Item " \o IntStr(row) \o ": " \o message, "active")
          ELSE /\ set_status(message, "active")
               /\ UNCHANGED entries
    /\ events' = Tail(events)
    /\ UNCHANGED <<queue_running, stop_queue_requested, current_row, worker, thread,
                   output_input, tasks>>

\* on_log only appends to the log box
on_log ==
    /\ Delivered("log")
    /\ events' = Tail(events)
    /\ UNCHANGED <<entries, queue_running, stop_queue_requested, current_row, worker,
                   thread, output_input, status_label, tasks>>

\* ItemOutcome looking for "cancel" in the message as given, without lower()
ItemOutcome_case_sensitive(success, message, shown) ==
    IF success
    THEN [row_status |-> "Done", state |-> "success", progress_text |-> "100%",
          stop |-> FALSE]
    ELSE IF Contains(message, "cancel")
    THEN [row_status |-> "Canceled", state |-> "warning", progress_text |-> shown,
          stop |-> TRUE]
    ELSE [row_status |-> "Failed", state |-> "error", progress_text |-> "0%",
          stop |-> FALSE]

\* ItemOutcome putting a failed row back in the queue
ItemOutcome_requeues_failed(success, message, shown) ==
    LET lowered == Lower(message)
    IN IF success
       THEN [row_status |-> "Done", state |-> "success", progress_text |-> "100%",
             stop |-> FALSE]
       ELSE IF Contains(lowered, "cancel")
       THEN [row_status |-> "Canceled", state |-> "warning", progress_text |-> shown,
             stop |-> TRUE]
       ELSE [row_status |-> "Queued", state |-> "error", progress_text |-> "0%",
             stop |-> FALSE]

\* ItemOutcome marking the row Canceled without asking the queue to stop
ItemOutcome_canceled_without_stop(success, message, shown) ==
    LET lowered == Lower(message)
    IN IF success
       THEN [row_status |-> "Done", state |-> "success", progress_text |-> "100%",
             stop |-> FALSE]
       ELSE IF Contains(lowered, "cancel")
       THEN [row_status |-> "Canceled", state |-> "warning", progress_text |-> shown,
             stop |-> FALSE]
       ELSE [row_status |-> "Failed", state |-> "error", progress_text |-> "0%",
             stop |-> FALSE]

\* the status, progress text and stop request on_item_finished derives from a
\* finished(success, message) signal for a row showing the progress text shown
ItemOutcome(success, message, shown) ==
    LET lowered == Lower(message)
    IN IF success
       THEN [row_status |-> "Done", state |-> "success", progress_text |-> "100%",
             stop |-> FALSE]
       ELSE IF Contains(lowered, "cancel")
       THEN [row_status |-> "Canceled", state |-> "warning", progress_text |-> shown,
             stop |-> TRUE]
       ELSE [row_status |-> "Failed", state |-> "error", progress_text |-> "0%",
             stop |-> FALSE]

\* on_item_finished going on to the next row itself instead of leaving that to
\* on_thread_finished
on_item_finished_starts_next ==
    /\ Delivered("finished")
    /\ LET success == Head(events).success
           message == Head(events).message
           row == current_row
       IN IF row = NoRow
          THEN UNCHANGED <<entries, queue_running, stop_queue_requested, current_row,
                           worker, thread, status_label, tasks>>
          ELSE LET out == ItemOutcome(success, message, entries[row].progress)
               IN start_next_item([entries EXCEPT ![row].status = out.row_status,
                                                  ![row].progress = out.progress_text],
                                  stop_queue_requested \/ out.stop, worker, tasks)
    /\ events' = Tail(events)
    /\ UNCHANGED output_input

\* on_item_finished forgetting the worker and its thread as soon as the item
\* has finished
on_item_finished_forgetting_worker ==
    /\ Delivered("finished")
    /\ LET success == Head(events).success
           message == Head(events).message
           row == current_row
       IN IF row = NoRow
          THEN UNCHANGED <<entries, stop_queue_requested, status_label>>
          ELSE LET out == ItemOutcome(success, message, entries[row].progress)
               IN /\ stop_queue_requested' = (stop_queue_requested \/ out.stop)
                  /\ entries' = [entries EXCEPT ![row].status = out.row_status,
                                                ![row].progress = out.progress_text]
                  /\ set_status(message, out.state)
    /\ worker' = NoWorker /\ thread' = NoWorker
    /\ events' = Tail(events)
    /\ UNCHANGED <<queue_running, current_row, output_input, tasks>>

on_item_finished ==
    /\ Delivered("finished")
    /\ LET success == Head(events).success
           message == Head(events).message
           row == current_row
       IN IF row = NoRow
          THEN UNCHANGED <<entries, stop_queue_requested, status_label>>
          ELSE LET out == ItemOutcome(success, message, entries[row].progress)
               IN /\ stop_queue_requested' = (stop_queue_requested \/ out.stop)
                  /\ entries' = [entries EXCEPT ![row].status = out.row_status,
                                                ![row].progress = out.progress_text]
                  /\ set_status(message, out.state)
    /\ events' = Tail(events)
    /\ UNCHANGED <<queue_running, current_row, worker, thread, output_input, tasks>>

\* QThread.quit, connected to worker.finished: the thread's event loop is told to exit
thread_quit ==
    /\ Delivered("quit")
    /\ tasks' = [tasks EXCEPT ![Head(events).src].pc = "quit"]
    /\ events' = Tail(events)
    /\ UNCHANGED <<entries, queue_running, stop_queue_requested, current_row, worker,
                   thread, output_input, status_label>>

\* on_thread_finished forgetting the worker without going on with the queue
on_thread_finished_without_advance ==
    /\ Delivered("thread_finished")
    /\ worker' = NoWorker /\ thread' = NoWorker /\ current_row' = NoRow
    /\ tasks' = [tasks EXCEPT ![Head(events).src] = NoTask]
    /\ events' = Tail(events)
    /\ UNCHANGED <<entries, queue_running, stop_queue_requested, status_label, output_input>>

\* on_thread_finished; the thread and worker objects that signalled are deleted
\* (deleteLater), which frees their slot
on_thread_finished ==
    /\ Delivered("thread_finished")
    /\ LET ts == [tasks EXCEPT ![Head(events).src] = NoTask]
       IN IF queue_running
          THEN start_next_item(entries, stop_queue_requested, NoWorker, ts)
          ELSE /\ worker' = NoWorker /\ thread' = NoWorker /\ current_row' = NoRow
               /\ tasks' = ts
               /\ UNCHANGED <<entries, queue_running, stop_queue_requested, status_label>>
    /\ events' = Tail(events)
    /\ UNCHANGED output_input

(***************************************************************************)
(* MainWindow: removing rows.                                              *)
(***************************************************************************)
\* QTableWidget.removeRow for each row of a set, lowest row first
RECURSIVE RemoveRows_lowest_first(_, _)
RemoveRows_lowest_first(rows, sel) ==
    IF sel = {} THEN rows
    ELSE LET row == CHOOSE r \in sel : \A q \in sel : q >= r
         IN IF row > Len(rows)
            THEN RemoveRows_lowest_first(rows, sel \ {row})
            ELSE RemoveRows_lowest_first(
                     SubSeq(rows, 1, row - 1) \o SubSeq(rows, row + 1, Len(rows)),
                     sel \ {row})

\* QTableWidget.removeRow for each row of a set, highest row first
RECURSIVE RemoveRows(_, _)
RemoveRows(rows, sel) ==
    IF sel = {} THEN rows
    ELSE LET row == CHOOSE r \in sel : \A q \in sel : q <= r
         IN RemoveRows(SubSeq(rows, 1, row - 1) \o SubSeq(rows, row + 1, Len(rows)),
                       sel \ {row})

\* remove_selected_items without the test of queue_running
remove_selected_items_while_running(selected_rows) ==
    IF selected_rows = {}
    THEN UNCHANGED vars
    ELSE /\ entries' = RemoveRows(entries, selected_rows)
         /\ set_status("Removed " \o IntStr(Cardinality(selected_rows)) \o " item(s).", "idle")
         /\ UNCHANGED <<queue_running, stop_queue_requested, current_row, worker, thread,
                        output_input, tasks, events>>

remove_selected_items(selected_rows) ==
    IF queue_running
    THEN UNCHANGED vars
    ELSE IF selected_rows = {}
    THEN UNCHANGED vars
    ELSE /\ entries' = RemoveRows(entries, selected_rows)
         /\ set_status("Removed " \o IntStr(Cardinality(selected_rows)) \o " item(s).", "idle")
         /\ UNCHANGED <<queue_running, stop_queue_requested, current_row, worker, thread,
                        output_input, tasks, events>>

\* clear_finished_items leaving the Canceled rows in the table
clear_finished_items_keeps_canceled ==
    IF queue_running
    THEN UNCHANGED vars
    ELSE LET removable == {row \in 1..Len(entries) :
                              entries[row].status \in {"Done", "Failed"}}
         IN /\ entries' = RemoveRows(entries, removable)
            /\ IF removable # {}
               THEN set_status("Cleared " \o IntStr(Cardinality(removable))
                               \o " finished item(s).", "idle")
               ELSE UNCHANGED status_label
            /\ UNCHANGED <<queue_running, stop_queue_requested, current_row, worker,
                           thread, output_input, tasks, events>>

\* clear_finished_items without the test of queue_running
clear_finished_items_while_running ==
    LET removable == {row \in 1..Len(entries) :
                         entries[row].status \in {"Done", "Failed", "Canceled"}}
    IN /\ entries' = RemoveRows(entries, removable)
       /\ IF removable # {}
          THEN set_status("Cleared " \o IntStr(Cardinality(removable))
                          \o " finished item(s).", "idle")
          ELSE UNCHANGED status_label
       /\ UNCHANGED <<queue_running, stop_queue_requested, current_row, worker,
                      thread, output_input, tasks, events>>

clear_finished_items ==
    IF queue_running
    THEN UNCHANGED vars
    ELSE LET removable == {row \in 1..Len(entries) :
                              entries[row].status \in {"Done", "Failed", "Canceled"}}
         IN /\ entries' = RemoveRows(entries, removable)
            /\ IF removable # {}
               THEN set_status("Cleared " \o IntStr(Cardinality(removable))
                               \o " finished item(s).", "idle")
               ELSE UNCHANGED status_label
            /\ UNCHANGED <<queue_running, stop_queue_requested, current_row, worker,
                           thread, output_input, tasks, events>>

(***************************************************************************)
(* DownloadWorker, running in its thread.  Each action is one step of      *)
(* run(); pc names the line run() is at.                                   *)
(***************************************************************************)
At(t, line) == tasks[t].pc = line

\* a step of worker t that only moves run() on and posts signal deliveries
WorkerStep(t, pc, posted) ==
    /\ tasks' = [tasks EXCEPT ![t].pc = pc]
    /\ events' = events \o posted
    /\ UNCHANGED <<entries, queue_running, stop_queue_requested, current_row, worker,
                   thread, output_input, status_label>>

\* a step of worker t that leaves run() at an except clause with the exception text
WorkerRaise(t, pc, text) ==
    /\ tasks' = [tasks EXCEPT ![t].pc = pc, ![t].exc = text]
    /\ UNCHANGED <<entries, queue_running, stop_queue_requested, current_row, worker,
                   thread, output_input, status_label, events>>

LogSignal(t, message) == [sig |-> "log", src |-> t, message |-> message]
ProgressSignal(t, percent, message) ==
    [sig |-> "progress", src |-> t, percent |-> percent, message |-> message]

\* worker.finished is connected to on_item_finished and to thread.quit, in this
\* order; line is the line of run() that emitted the signal
FinishedSignal(t, line, success, message) ==
    << [sig |-> "finished", src |-> t, line |-> line, success |-> success,
        message |-> message],
       [sig |-> "quit", src |-> t] >>

\* QUALITY_PRESETS.get(name, QUALITY_PRESETS["Best (Video + Audio)"]) falling back
\* to the 720p preset
preset_falling_back_to_720p(quality_preset) ==
    IF quality_preset \in DOMAIN PresetTable
    THEN PresetTable[quality_preset]
    ELSE PresetTable["720p (MP4)"]

\* QUALITY_PRESETS.get(self.quality_preset, QUALITY_PRESETS["Best (Video + Audio)"])
preset(quality_preset) ==
    IF quality_preset \in DOMAIN PresetTable
    THEN PresetTable[quality_preset]
    ELSE PresetTable["Best (Video + Audio)"]

\* lines 115-119: the format of the preset, and its merge_output_format and
\* postprocessors when it has them
ydl_opts(quality_preset) ==
    LET chosen == preset(quality_preset)
    IN [key \in {"format"} \cup (DOMAIN chosen \cap {"merge_output_format", "postprocessors"})
           |-> chosen[key]]

\* lines 100-126: os.makedirs, the preset lookup, the "Quality" log line, the
\* cookies log line when a cookies file is given and exists (the field is read
\* when the worker is created and the file may exist or not: either is possible),
\* and the "Fetching" log line.  Statements of run() that read or write nothing
\* another thread touches are one step with the statement before them.
run_prepare(t) ==
    /\ At(t, "L100")
    /\ \/ \E use \in BOOLEAN :
             /\ tasks' = [tasks EXCEPT ![t].pc = "L128",
                                       ![t].ydl_opts = ydl_opts(tasks[t].quality_preset)]
             /\ events' = events
                    \o <<LogSignal(t, "Quality: " \o tasks[t].quality_preset)>>
                    \o (IF use
                        THEN <<LogSignal(t, "Using cookies file for authenticated download.")>>
                        ELSE <<>>)
                    \o <<LogSignal(t, "Fetching video info...")>>
             /\ UNCHANGED <<entries, queue_running, stop_queue_requested, current_row,
                            worker, thread, output_input, status_label>>
       \/ \E text \in OtherErrors : WorkerRaise(t, "L145", text)

\* lines 128-131: ydl.extract_info(self.url, download=False), then the "Title"
\* and "Starting download" log lines
run_extract_info(t) ==
    /\ At(t, "L128")
    /\ \/ \E title \in Titles :
             WorkerStep(t, "L132",
                 <<LogSignal(t, "Title: " \o sanitize_filename(title)),
                   LogSignal(t, "Starting download...")>>)
       \/ \E text \in ExtractorErrors : WorkerRaise(t, "L139", text)
       \/ \E text \in OtherErrors : WorkerRaise(t, "L145", text)

\* data.get(key), with None for a missing key
Has(data, key) == key \in DOMAIN data

\* data.get("total_bytes") or 0, without the estimate
TotalBytes_ignoring_estimate(data) ==
    IF Has(data, "total_bytes") /\ data.total_bytes # 0 THEN data.total_bytes ELSE 0

\* data.get("total_bytes") or data.get("total_bytes_estimate") or 0
TotalBytes(data) ==
    IF Has(data, "total_bytes") /\ data.total_bytes # 0 THEN data.total_bytes
    ELSE IF Has(data, "total_bytes_estimate") /\ data.total_bytes_estimate # 0
    THEN data.total_bytes_estimate
    ELSE 0

\* the signals _progress_hook emits for a dictionary when not cancelled
HookSignals(t, data) ==
    IF data.status = "downloading"
    THEN LET downloaded == IF Has(data, "downloaded_bytes") THEN data.downloaded_bytes ELSE 0
             total == TotalBytes(data)
         IN IF total > 0
            THEN LET percent == <<downloaded * 100, total>>
                     speed_text == IF Has(data, "speed")
                                   THEN FormatFixed(data.speed, 1024 * 1024, 2) \o " MB/s"
                                   ELSE "N/A"
                     eta_text == IF Has(data, "eta") THEN IntStr(data.eta) \o "s" ELSE "N/A"
                 IN <<ProgressSignal(t, percent,
                        PercentText(percent) \o " | " \o speed_text \o " | ETA: " \o eta_text)>>
            ELSE <<ProgressSignal(t, <<0, 1>>, "Downloading...")>>
    ELSE IF data.status = "finished"
    THEN <<ProgressSignal(t, <<100, 1>>, "Download complete, processing file...")>>
    ELSE <<>>

\* _progress_hook emitting its progress signal before it tests the flag
progress_hook_emitting_first(t, data) ==
    /\ At(t, "L132")
    /\ events' = events \o HookSignals(t, data)
    /\ IF tasks[t].cancelled
       THEN tasks' = [tasks EXCEPT ![t].pc = "L139", ![t].exc = "Download canceled by user."]
       ELSE /\ tasks[t].hooks < MaxHooks
            /\ tasks' = [tasks EXCEPT ![t].hooks = @ + 1]
    /\ UNCHANGED <<entries, queue_running, stop_queue_requested, current_row,
                   worker, thread, output_input, status_label>>

\* ydl.download calls _progress_hook: with the flag set the hook raises
\* DownloadError, which the library passes on to run()
progress_hook(t, data) ==
    /\ At(t, "L132")
    /\ IF tasks[t].cancelled
       THEN WorkerRaise(t, "L139", "Download canceled by user.")
       ELSE /\ tasks[t].hooks < MaxHooks   \* bound of the calls that return
            /\ tasks' = [tasks EXCEPT ![t].hooks = @ + 1]
            /\ events' = events \o HookSignals(t, data)
            /\ UNCHANGED <<entries, queue_running, stop_queue_requested, current_row,
                           worker, thread, output_input, status_label>>

\* ydl.download([self.url]) returns or raises
run_download(t) ==
    /\ At(t, "L132")
    /\ \/ WorkerStep(t, "L134", <<>>)
       \/ \E text \in ExtractorErrors : WorkerRaise(t, "L139", text)
       \/ \E text \in OtherErrors : WorkerRaise(t, "L145", text)

\* run() going on to line 138 without the test of line 134
run_check_cancelled_skipped(t) ==
    /\ At(t, "L134")
    /\ WorkerStep(t, "L138", <<>>)

\* if self._cancelled: (line 134)
run_check_cancelled(t) ==
    /\ At(t, "L134")
    /\ WorkerStep(t, IF tasks[t].cancelled THEN "L135" ELSE "L138", <<>>)

run_emit_canceled(t) ==
    /\ At(t, "L135")
    /\ WorkerStep(t, "returned", FinishedSignal(t, "L135", FALSE, "Download canceled."))

\* run() marking its row Done in the table itself when the download succeeds
run_emit_completed_marking_row(t) ==
    /\ At(t, "L138")
    /\ tasks' = [tasks EXCEPT ![t].pc = "returned"]
    /\ events' = events \o FinishedSignal(t, "L138", TRUE, "Download completed successfully.")
    /\ entries' = IF worker = t /\ current_row \in 1..Len(entries)
                  THEN [entries EXCEPT ![current_row].status = "Done",
                                       ![current_row].progress = "100%"]
                  ELSE entries
    /\ UNCHANGED <<queue_running, stop_queue_requested, current_row, worker, thread,
                   output_input, status_label>>

run_emit_completed(t) ==
    /\ At(t, "L138")
    /\ WorkerStep(t, "returned", FinishedSignal(t, "L138", TRUE, "Download completed successfully."))

\* the DownloadError clause reporting the failure without the test of line 140
run_except_download_error_unchecked(t) ==
    /\ At(t, "L139")
    /\ WorkerStep(t, "L143", <<>>)

\* except DownloadError as exc: if self._cancelled: (lines 139-140)
run_except_download_error(t) ==
    /\ At(t, "L139")
    /\ WorkerStep(t, IF tasks[t].cancelled THEN "L141" ELSE "L143", <<>>)

run_emit_canceled_error(t) ==
    /\ At(t, "L141")
    /\ WorkerStep(t, "returned", FinishedSignal(t, "L141", FALSE, "Download canceled."))

run_emit_failed(t) ==
    /\ At(t, "L143")
    /\ WorkerStep(t, "returned", FinishedSignal(t, "L143", FALSE, "Download failed: " \o tasks[t].exc))

\* except Exception: ending run() without a finished signal
run_emit_error_silent(t) ==
    /\ At(t, "L145")
    /\ WorkerStep(t, "returned", <<>>)

\* except Exception as exc: (lines 144-145)
run_emit_error(t) ==
    /\ At(t, "L145")
    /\ WorkerStep(t, "returned", FinishedSignal(t, "L145", FALSE, "Error: " \o tasks[t].exc))

\* the thread leaves its event loop after quit() and emits QThread.finished,
\* which is connected to on_thread_finished
thread_finished(t) ==
    /\ At(t, "quit")
    /\ WorkerStep(t, "finished", <<[sig |-> "thread_finished", src |-> t]>>)

(***************************************************************************)
(* Specification.                                                          *)
(***************************************************************************)
UserAction ==
    \/ \E text \in UrlTexts, quality \in Qualities : enqueue_urls(text, quality)
    \/ \E text \in OutputDirs : edit_output_input(text)
    \/ start_queue
    \/ cancel_download
    \/ \E selected_rows \in SUBSET (1..Len(entries)) : remove_selected_items(selected_rows)
    \/ clear_finished_items

SignalDelivery ==
    \/ on_progress
    \/ on_log
    \/ on_item_finished
    \/ thread_quit
    \/ on_thread_finished

WorkerAction ==
    \E t \in Slots :
        \/ run_prepare(t)
        \/ run_extract_info(t)
        \/ \E data \in ProgressData : progress_hook(t, data)
        \/ run_download(t)
        \/ run_check_cancelled(t)
        \/ run_emit_canceled(t)
        \/ run_emit_completed(t)
        \/ run_except_download_error(t)
        \/ run_emit_canceled_error(t)
        \/ run_emit_failed(t)
        \/ run_emit_error(t)
        \/ thread_finished(t)

Next == UserAction \/ SignalDelivery \/ WorkerAction

Spec == Init /\ [][Next]_vars

(***************************************************************************)
(* The same program with its scheduling: the GUI thread's event loop       *)
(* handles every queued delivery in the end, a thread that was started     *)
(* runs, and the extraction library's calls return or raise in the end.    *)
(* The user enqueues, starts and cancels; removing rows, which the         *)
(* handlers refuse while the queue runs, and editing the output folder,    *)
(* which no test of run() or of the handlers reads after start_queue, are  *)
(* left to Spec.                                                           *)
(***************************************************************************)
\* the statements of run() in worker t other than the library calling the hook
run(t) ==
    \/ run_prepare(t) \/ run_extract_info(t) \/ run_download(t) \/ run_check_cancelled(t)
    \/ run_emit_canceled(t) \/ run_emit_completed(t) \/ run_except_download_error(t)
    \/ run_emit_canceled_error(t) \/ run_emit_failed(t) \/ run_emit_error(t)

\* a step of the program that is not the user's and not the library calling
\* the hook
Scheduled == SignalDelivery \/ \E t \in Slots : run(t) \/ thread_finished(t)

\* something that is scheduled is done in the end
Fairness == WF_vars(Scheduled)

NextLive ==
    \/ \E text \in UrlTexts, quality \in Qualities : enqueue_urls(text, quality)
    \/ start_queue
    \/ cancel_download
    \/ SignalDelivery
    \/ WorkerAction

SpecLive == Init /\ [][NextLive]_vars /\ Fairness

(***************************************************************************)
(* The queue table's handlers applied to the tables a stopped run leaves.  *)
(* Rows run in table order and a run ends with no row Downloading, so an   *)
(* idle table holds finished rows followed by Queued rows; the rows here   *)
(* carry different URLs, which tells them apart.                           *)
(***************************************************************************)
\* URLs of the rows
TableUrls == {"a", "b", "c"}
\* what the user may have typed into url_input
TableUrlTexts == {" \t ", "c", " b \n\r\n a\n"}
\* status and progress text of a row a run has finished with (on_item_finished)
FinishedCells ==
    { [status |-> "Done", progress |-> "100%"],
      [status |-> "Failed", progress |-> "0%"],
      [status |-> "Canceled", progress |-> "0%"],
      [status |-> "Canceled", progress |-> "150.0%"] }
\* status and progress text of a row no run has reached (_append_queue_row)
QueuedCell == [status |-> "Queued", progress |-> "0%"]

TableRows ==
    { [url |-> u, quality |-> q, status |-> c.status, progress |-> c.progress,
       quality_enabled |-> TRUE] :
        u \in TableUrls, q \in Qualities, c \in FinishedCells \cup {QueuedCell} }

\* the tables of up to MaxTableRows rows with the finished rows first
IdleTables ==
    UNION { { t \in [1..n -> TableRows] :
                \A i, j \in 1..n :
                    (i < j /\ t[i].status = "Queued") => t[j].status = "Queued" } :
            n \in 0..MaxTableRows }

\* the window as constructed (no row), as enqueue_urls leaves it (Queued rows
\* only), or as _finish_queue leaves it after a stop
InitTable ==
    /\ entries \in IdleTables
    /\ queue_running = FALSE
    /\ stop_queue_requested = FALSE
    /\ current_row = NoRow
    /\ worker = NoWorker
    /\ thread = NoWorker
    /\ output_input = "/out"
    /\ status_label = IF \E r \in 1..Len(entries) : entries[r].status # "Queued"
                      THEN [text |-> "Queue stopped.", state |-> "warning"]
                      ELSE IF entries = <<>>
                      THEN [text |-> "Ready", state |-> "idle"]
                      ELSE [text |-> "Added " \o IntStr(Len(entries)) \o " item(s) to queue.",
                            state |-> "idle"]
    /\ tasks = [t \in Slots |-> NoTask]
    /\ events = <<>>

NextTable ==
    \/ \E text \in TableUrlTexts, quality \in Qualities : enqueue_urls(text, quality)
    \/ start_queue
    \/ \E selected_rows \in SUBSET (1..Len(entries)) : remove_selected_items(selected_rows)
    \/ clear_finished_items

SpecTable == InitTable /\ [][NextTable]_vars

(***************************************************************************)
(* The way of a preset name from enqueue_urls to the options of the        *)
(* worker's YoutubeDL.  The combo boxes offer the keys of QUALITY_PRESETS; *)
(* the other names are what the fallbacks of _build_row_quality_combo and  *)
(* of run() are there for.                                                 *)
(***************************************************************************)
\* preset names given to enqueue_urls and to DownloadWorker
PresetNames == QUALITY_PRESETS \cup {"Potato", "", "720p"}

NextPreset ==
    \/ \E quality \in PresetNames : enqueue_urls("a", quality)
    \/ \E row \in 1..Len(entries), quality \in QUALITY_PRESETS : edit_row_quality(row, quality)
    \/ start_queue
    \/ \E t \in Slots : run_prepare(t)
    \/ \E t \in Slots : run_extract_info(t)
    \/ on_log

SpecPreset == Init /\ [][NextPreset]_vars

(***************************************************************************)
(* A download up to the return of ydl.download, with the dictionaries the  *)
(* extraction library may pass to the progress hook, and the handling of   *)
(* the progress signals in the window.                                     *)
(***************************************************************************)
\* the dictionaries passed to the progress hook: status "downloading" with
\* total_bytes, with total_bytes_estimate only, with neither or with a total of
\* 0, nothing downloaded yet, more downloaded than estimated; status
\* "finished" with and without a total; another status
HookData ==
    ProgressData \cup
    { [status |-> "downloading", downloaded_bytes |-> 1, total_bytes |-> 4],
      [status |-> "downloading", downloaded_bytes |-> 0, total_bytes |-> 4, eta |-> 9],
      [status |-> "downloading", downloaded_bytes |-> 1, total_bytes_estimate |-> 3],
      [status |-> "downloading", downloaded_bytes |-> 1, total_bytes |-> 0],
      [status |-> "finished", downloaded_bytes |-> 4, total_bytes |-> 4],
      [status |-> "error"] }

NextHook ==
    \/ enqueue_urls("a", "720p (MP4)")
    \/ start_queue
    \/ cancel_download
    \/ \E t \in Slots : run_prepare(t)
    \/ \E t \in Slots : run_extract_info(t)
    \/ \E t \in Slots, data \in HookData : progress_hook(t, data)
    \/ \E t \in Slots : run_download(t)
    \/ on_log
    \/ on_progress

SpecHook == Init /\ [][NextHook]_vars

(***************************************************************************)
(* Properties.                                                             *)
(***************************************************************************)
Terminal == {"Done", "Failed", "Canceled"}
Rows == 1..Len(entries)
RowsWith(status) == {r \in Rows : entries[r].status = status}

\* this step creates a worker and starts its thread in slot t
Created(t) == tasks[t].pc # "L100" /\ tasks'[t].pc = "L100"

\* this step is on_item_finished handling the signal at the head of the queue
HandlesFinished == Delivered("finished") /\ events' = Tail(events)

\* C1: no two download tasks are alive at once, and a step creates a worker and
\* its thread only when no other thread is alive (none exists, or each earlier
\* one has emitted QThread.finished); in particular the step that handles a
\* worker's finished signal, whose thread is still alive, creates none.
C1_OneTaskAtATime ==
    /\ [](Cardinality({t \in Slots : Live(t)}) <= 1)
    /\ [][\A t \in Slots : Created(t) => \A u \in Slots : ~Live(u)]_vars
    /\ [][HandlesFinished => \A t \in Slots : ~Created(t)]_vars

\* a second task runs after the first one's thread has ended
C1_Witness ==
    /\ \E t \in Slots : Live(t)
    /\ RowsWith("Downloading") # {}
    /\ \E r \in Rows : entries[r].status \in Terminal

\* C2: at most one row has status Downloading.
C2_AtMostOneDownloading == Cardinality(RowsWith("Downloading")) <= 1

\* a row is downloading in a run restarted after a stop, beside a canceled row
C2_Witness ==
    /\ queue_running
    /\ Cardinality(RowsWith("Downloading")) = 1
    /\ RowsWith("Canceled") # {}

\* the worker self.worker refers to has not had its finished signal handled
FinishedPending ==
    /\ worker # NoWorker
    /\ \/ tasks[worker].pc \notin {"returned", "quit", "finished"}
       \/ \E i \in 1..Len(events) : events[i].sig = "finished" /\ events[i].src = worker

\* C3 as claimed: whenever current_row is set, that row is Downloading and the
\* queue is running.
C3_ActiveRowDownloading ==
    current_row # NoRow =>
        /\ current_row \in Rows
        /\ entries[current_row].status = "Downloading"
        /\ queue_running

\* C3 as amended: whenever current_row is set, the queue is running and that row
\* is Downloading until the worker's finished signal has been handled, and Done,
\* Failed or Canceled from then until the thread's end has been handled.
C3_ActiveRowBound ==
    current_row # NoRow =>
        /\ current_row \in Rows
        /\ queue_running
        /\ IF FinishedPending
           THEN entries[current_row].status = "Downloading"
           ELSE entries[current_row].status \in Terminal

\* current_row still names a row whose finished signal has been handled
C3_Witness ==
    /\ current_row # NoRow
    /\ ~FinishedPending
    /\ entries[current_row].status \in Terminal
    /\ \E t \in Slots : Live(t)

\* C4: rows run in list order: every row before a row that has left Queued is
\* Done, Failed or Canceled, so no Queued row precedes a row that is not Queued
\* and a row becomes Downloading only when all rows before it are finished.
C4_StrictFifo ==
    \A i, j \in Rows :
        (i < j /\ entries[j].status # "Queued") => entries[i].status \in Terminal

\* the second row is downloading after the first one finished
C4_Witness ==
    /\ Len(entries) >= 2
    /\ entries[1].status \in Terminal
    /\ entries[2].status = "Downloading"

\* this step is on_thread_finished handling the signal at the head of the queue
HandlesThreadFinished == Delivered("thread_finished") /\ events' = Tail(events)

\* C5: a stop requested while a row is Downloading sets the stop flag; while the
\* flag is set no Queued row changes and no worker is created, and the flag
\* stays set, with the queue running, until the step that handles the thread's
\* end, which leaves the queue not running with the status "Queue stopped.",
\* whatever the outcome of the active task was.
C5_StopHaltsQueue ==
    [][ /\ (cancel_download /\ RowsWith("Downloading") # {}) => stop_queue_requested'
        /\ stop_queue_requested =>
              /\ \A r \in RowsWith("Queued") :
                    r <= Len(entries') /\ entries'[r].status = "Queued"
              /\ \A t \in Slots : ~Created(t)
              /\ \/ stop_queue_requested' /\ queue_running'
                 \/ /\ HandlesThreadFinished
                    /\ ~queue_running' /\ ~stop_queue_requested'
                    /\ status_label' = [text |-> "Queue stopped.", state |-> "warning"]
      ]_vars

\* the queue was stopped, its item failed and the next row is still Queued
C5_Witness ==
    /\ ~queue_running
    /\ status_label.text = "Queue stopped."
    /\ Len(entries) = 2
    /\ entries[1].status = "Failed"
    /\ entries[2].status = "Queued"

\* the finished signal a step of worker t has just posted
Emitted == events'[Len(events) + 1]
Emits(t, line) == At(t, line) /\ tasks'[t].pc = "returned"

\* C6 as claimed: when the finished signal of a task that ended with a
\* DownloadError (line 143) is handled and neither cancel() nor a stop was
\* requested, the row becomes Failed whatever the error text is, and no stop is
\* requested, so that the step handling the thread's end starts the next
\* Queued row.
C6_ExtractionFailureNotFatal ==
    [][ /\ ( /\ HandlesFinished
             /\ current_row # NoRow
             /\ Head(events).line = "L143"
             /\ ~tasks[Head(events).src].cancelled
             /\ ~stop_queue_requested )
           => /\ entries'[current_row].status = "Failed"
              /\ ~stop_queue_requested'
        /\ ( /\ HandlesThreadFinished
             /\ queue_running /\ ~stop_queue_requested
             /\ RowsWith("Queued") # {} )
           => \E t \in Slots : Created(t)
      ]_vars

\* C7: when run() tests the flag in the DownloadError clause after cancel() was
\* called, it goes on to line 141 whatever the error text is, and the row of a
\* finished signal emitted there becomes Canceled.
C7_CancelThenErrorIsCanceled ==
    [][ /\ \A t \in Slots :
              (At(t, "L139") /\ tasks[t].cancelled /\ tasks'[t].pc # "L139")
              => tasks'[t].pc = "L141"
        /\ \A t \in Slots :
              Emits(t, "L141") => Contains(Lower(Emitted.message), "cancel")
        /\ (HandlesFinished /\ current_row # NoRow /\ Head(events).line = "L141")
           => entries'[current_row].status = "Canceled"
      ]_vars

\* a cancelled task ended with a DownloadError whose text does not contain
\* "cancel", and its row is Canceled
C7_Witness ==
    /\ current_row # NoRow
    /\ entries[current_row].status = "Canceled"
    /\ \E t \in Slots :
          /\ tasks[t].pc \in {"returned", "quit", "finished"}
          /\ tasks[t].cancelled
          /\ tasks[t].exc = "ERROR: Unsupported URL"

\* "cancel" occurs in the message in any mix of upper and lower case
MentionsCancel(message) ==
    \E i \in 0..(Len(message) - 6) : Lower(SubSeq(message, i + 1, i + 6)) = "cancel"

\* C8: the step that handles finished(success, message) makes the current row
\* Done with "100%" on success, Canceled with its progress text kept when the
\* message mentions "cancel" in any case, Failed with "0%" otherwise, and
\* changes nothing else of that row and nothing of any other row.
C8_FinishedOutcome ==
    [][ (HandlesFinished /\ current_row # NoRow) =>
           LET success == Head(events).success
               cancel_msg == MentionsCancel(Head(events).message)
               before == entries[current_row]
               after == entries'[current_row]
           IN /\ Len(entries') = Len(entries)
              /\ after.status = IF success THEN "Done"
                                ELSE IF cancel_msg THEN "Canceled" ELSE "Failed"
              /\ after.progress = IF success THEN "100%"
                                  ELSE IF cancel_msg THEN before.progress ELSE "0%"
              /\ after.url = before.url /\ after.quality = before.quality
              /\ \A r \in Rows \ {current_row} : entries'[r] = entries[r]
      ]_vars

\* a Canceled row shows the progress text it had, beside an untouched Queued row
C8_Witness ==
    /\ Len(entries) = 2
    /\ entries[1].status = "Canceled" /\ entries[1].progress = "150.0%"
    /\ entries[2].status = "Queued" /\ entries[2].progress = "0%"

\* C9 as claimed: after the download returned, the finished signal is the
\* canceled one if cancel() was called before the signal is emitted, and the
\* successful one only if cancel() was not called before it is emitted.
C9_CancelBeforeEmit ==
    [][ \A t \in Slots :
           (Emits(t, "L135") \/ Emits(t, "L138")) =>
               /\ Emitted.success = ~tasks[t].cancelled
               /\ Emitted.message = IF tasks[t].cancelled
                                    THEN "Download canceled."
                                    ELSE "Download completed successfully."
      ]_vars

\* C9 as amended: after the download returned, run() emits the canceled signal
\* if cancel() was called before its test of the flag on line 134 and the
\* successful one if not; a cancel() between the test and the emission does not
\* change the signal.
C9_CancelBeforeCheck ==
    [][ \A t \in Slots :
           /\ (At(t, "L134") /\ tasks'[t].pc # "L134")
              => tasks'[t].pc = IF tasks[t].cancelled THEN "L135" ELSE "L138"
           /\ Emits(t, "L135")
              => /\ ~Emitted.success
                 /\ Emitted.message = "Download canceled."
                 /\ tasks[t].cancelled
           /\ Emits(t, "L138")
              => /\ Emitted.success
                 /\ Emitted.message = "Download completed successfully."
      ]_vars

\* the download returned after cancel() and the canceled signal is on its way
C9_Witness ==
    \E i \in 1..Len(events) :
        /\ events[i].sig = "finished"
        /\ events[i].line = "L135"
        /\ ~events[i].success
        /\ tasks[events[i].src].cancelled

\* C10: while the queue is running, neither remove_selected_items, for any
\* selection, nor clear_finished_items can change anything.
C10_NoRemovalWhileRunning ==
    queue_running =>
        /\ ~ENABLED <<clear_finished_items>>_vars
        /\ \A selected_rows \in SUBSET Rows :
              ~ENABLED <<remove_selected_items(selected_rows)>>_vars

\* the queue runs with a finished row to clear and rows to select
C10_Witness ==
    /\ queue_running
    /\ Len(entries) = 2
    /\ entries[1].status \in Terminal
    /\ entries[2].status = "Downloading"

\* C11: a row with status Downloading is never removed: a Downloading row
\* exists only while the queue is running, and a step taken while a row is
\* Downloading removes no row and leaves that row in its place with its URL
\* and quality.
C11_DownloadingNeverRemoved ==
    /\ [](RowsWith("Downloading") # {} => queue_running)
    /\ [][ \A r \in RowsWith("Downloading") :
              /\ Len(entries') >= Len(entries)
              /\ entries'[r].url = entries[r].url
              /\ entries'[r].quality = entries[r].quality
          ]_vars

\* a row is downloading after a stop was asked for, beside a row that could be
\* cleared
C11_Witness ==
    /\ stop_queue_requested
    /\ Len(entries) = 2
    /\ entries[1].status = "Failed"
    /\ entries[2].status = "Downloading"

\* the rows of a table whose index is in keep, in table order
RECURSIVE KeptFrom(_, _, _)
KeptFrom(rows, keep, i) ==
    IF i > Len(rows) THEN <<>>
    ELSE (IF i \in keep THEN <<rows[i]>> ELSE <<>>) \o KeptFrom(rows, keep, i + 1)

\* C12: when the queue is not running, clear_finished_items leaves exactly the
\* rows whose status is not Done, Failed or Canceled, each with its fields, in
\* the order they had.
C12_ClearFinishedExact ==
    [][ (~queue_running /\ clear_finished_items) =>
           entries' = KeptFrom(entries, {r \in Rows : entries[r].status \notin Terminal}, 1)
      ]_vars

\* finished rows of each kind were cleared and the Queued row is what is left
C12_Witness ==
    /\ status_label.text = "Cleared 2 finished item(s)."
    /\ Len(entries) = 1
    /\ entries[1].status = "Queued"

\* C13: when the queue is not running, remove_selected_items with any set of
\* rows selected leaves exactly the rows that were not selected, each with its
\* fields, in the order they had.
C13_RemoveSelectedExact ==
    [][ \A selected_rows \in SUBSET Rows :
           (~queue_running /\ remove_selected_items(selected_rows)) =>
               entries' = KeptFrom(entries, Rows \ selected_rows, 1)
      ]_vars

\* two rows of three were removed
C13_Witness ==
    /\ status_label.text = "Removed 2 item(s)."
    /\ Len(entries) = 1

\* the URLs enqueue_urls is to append for each text of TableUrlTexts: one for
\* each line that is not blank, in the order of the lines
SubmittedLines(text) ==
    IF text = "c" THEN <<"c">>
    ELSE IF text = " b \n\r\n a\n" THEN <<"b", "a">>
    ELSE <<>>

\* C14: enqueue_urls, with the queue running or not, appends one row for each
\* non-blank line of the text, in the order of the lines, with the line's text,
\* status Queued and progress "0%", whether or not the table holds that URL
\* already, and changes no row the table had.
C14_EnqueueAppends ==
    [][ \A text \in TableUrlTexts, quality \in Qualities :
           enqueue_urls(text, quality) =>
               /\ Len(entries') = Len(entries) + Len(SubmittedLines(text))
               /\ SubSeq(entries', 1, Len(entries)) = entries
               /\ \A i \in 1..Len(SubmittedLines(text)) :
                     LET new == entries'[Len(entries) + i]
                     IN /\ new.url = SubmittedLines(text)[i]
                        /\ new.status = "Queued"
                        /\ new.progress = "0%"
                        /\ new.quality = quality
      ]_vars

\* a URL the table held was enqueued again while the queue was running
C14_Witness ==
    /\ queue_running
    /\ Len(entries) = 2
    /\ entries[1].status = "Downloading"
    /\ entries[2].status = "Queued"
    /\ entries[2].url = entries[1].url
    /\ status_label.text = "Added 1 item(s) to queue."

\* the output folder field holds nothing but whitespace
BlankFolder == \A i \in 1..Len(output_input) : CharAt(output_input, i) \in Whitespace

\* C15: start_queue changes nothing when the queue is running, when the output
\* folder is blank or when no row is Queued: no row changes, no worker is
\* created, and queue_running, stop_queue_requested and current_row keep their
\* values.
C15_StartRejected ==
    (queue_running \/ BlankFolder \/ RowsWith("Queued") = {}) =>
        ~ENABLED <<start_queue>>_vars

\* the queue is idle with a Queued row and a blank output folder
C15_Witness ==
    /\ ~queue_running
    /\ output_input = "  "
    /\ RowsWith("Queued") # {}
    /\ \A t \in Slots : ~Live(t)

\* C16: the status of a row only moves from Queued to Downloading and from
\* Downloading to Done, Failed or Canceled: a step that removes no row leaves
\* each row's status or moves it one such step on, so no row returns to
\* Queued, none leaves Queued for anything but Downloading, and a Done, Failed
\* or Canceled row stays as it is; a step that removes rows changes no row it
\* leaves.
C16_StatusMovesForward ==
    [][ /\ Len(entries') >= Len(entries) =>
              \A r \in Rows :
                 LET before == entries[r].status
                     after == entries'[r].status
                 IN \/ after = before
                    \/ before = "Queued" /\ after = "Downloading"
                    \/ before = "Downloading" /\ after \in Terminal
        /\ Len(entries') < Len(entries) =>
              \A r \in 1..Len(entries') : \E q \in Rows : entries'[r] = entries[q]
      ]_vars

\* a run started after a stop passed over the Canceled row and took the next
C16_Witness ==
    /\ Len(entries) = 2
    /\ entries[1].status = "Canceled"
    /\ entries[2].status = "Downloading"
    /\ current_row = 2

\* the name whose configuration a preset name stands for
Resolved(name) == IF name \in QUALITY_PRESETS THEN name ELSE "Best (Video + Audio)"

\* this step is enqueue_urls("a", quality) appending a row
Enqueues(quality) == Len(entries') = Len(entries) + 1 /\ enqueue_urls("a", quality)

\* C17: the options run() builds from a preset name are those of the preset of
\* that name when it is a key of QUALITY_PRESETS and those of
\* "Best (Video + Audio)" for every other name, so the default's own name and
\* an unknown name give the same options; a row enqueued under a name runs, when
\* its worker is created, with the options that name stands for.
C17_PresetResolution ==
    /\ [](\A name \in PresetNames :
             /\ ydl_opts(name) = PresetTable[Resolved(name)]
             /\ name \notin QUALITY_PRESETS => ydl_opts(name) = ydl_opts("Best (Video + Audio)"))
    /\ [][\A quality \in PresetNames :
             Enqueues(quality) =>
                 ydl_opts(entries'[Len(entries')].quality) = PresetTable[Resolved(quality)]]_vars
    /\ [][\A t \in Slots :
             Created(t) => tasks'[t].quality_preset = entries[current_row'].quality]_vars
    /\ [](\A t \in Slots :
             tasks[t].pc \in {"L128", "L132", "L139"} =>
                 tasks[t].ydl_opts = PresetTable[Resolved(tasks[t].quality_preset)])

\* a row showing the default preset, as a row enqueued as "Potato" does, is
\* running and its worker has built the default preset's options
C17_Witness ==
    /\ current_row # NoRow
    /\ entries[current_row].quality = "Best (Video + Audio)"
    /\ \E t \in Slots :
          /\ tasks[t].pc = "L128"
          /\ tasks[t].ydl_opts = [format |-> "best"]

\* the total size a dictionary gives: total_bytes, or the estimate when there is
\* no total_bytes or it is 0; 0 when it gives none
KnownTotal(data) ==
    IF "total_bytes" \in DOMAIN data /\ data.total_bytes > 0 THEN data.total_bytes
    ELSE IF "total_bytes_estimate" \in DOMAIN data /\ data.total_bytes_estimate > 0
    THEN data.total_bytes_estimate
    ELSE 0

\* this step is the progress hook of worker t, not cancelled, called with data
HookCalled(t, data) == progress_hook(t, data) /\ tasks'[t].hooks = tasks[t].hooks + 1

\* the signals a step has posted
Posted == SubSeq(events', Len(events) + 1, Len(events'))

\* C18 as claimed: for every dictionary the hook is called with, a progress
\* signal it emits has a positive percent only when the dictionary gives a
\* positive total size, and is (0, "Downloading...") when it gives none.
C18_PositiveOnlyWithTotal ==
    [][ \A t \in Slots, data \in HookData :
           HookCalled(t, data) =>
               \A i \in 1..Len(Posted) :
                  /\ Posted[i].percent[1] > 0 => KnownTotal(data) > 0
                  /\ KnownTotal(data) = 0 =>
                        /\ Posted[i].percent[1] = 0
                        /\ Posted[i].message = "Downloading..."
      ]_vars

\* C18 as amended: called with status "downloading", the hook emits one
\* progress signal, with the percent downloaded / total * 100 when the
\* dictionary gives a positive total size and (0, "Downloading...") when it
\* gives none; called with status "finished" it emits
\* (100, "Download complete, processing file...") whatever sizes the dictionary
\* gives; called with another status it emits nothing.
C18_ProgressPercent ==
    [][ \A t \in Slots, data \in HookData :
           HookCalled(t, data) =>
               IF data.status = "downloading"
               THEN /\ Len(Posted) = 1
                    /\ Posted[1].sig = "progress"
                    /\ IF KnownTotal(data) > 0
                       THEN /\ Posted[1].percent[1] * KnownTotal(data)
                                  = data.downloaded_bytes * 100 * Posted[1].percent[2]
                            /\ Posted[1].message # "Downloading..."
                       ELSE /\ Posted[1].percent[1] = 0
                            /\ Posted[1].message = "Downloading..."
               ELSE IF data.status = "finished"
               THEN /\ Len(Posted) = 1
                    /\ Posted[1].sig = "progress"
                    /\ Posted[1].percent[1] = 100 * Posted[1].percent[2]
                    /\ Posted[1].message = "Download complete, processing file..."
               ELSE Posted = <<>>
      ]_vars

\* the hook was called with status "finished" and its signal of 100 percent is
\* on its way to the window
C18_Witness ==
    \E i \in 1..Len(events) :
        /\ events[i].sig = "progress"
        /\ events[i].percent = <<100, 1>>
        /\ events[i].message = "Download complete, processing file..."

\* C19 as claimed: every progress signal on its way to on_progress has a
\* percent from 0 to 100.
C19_PercentInRange ==
    \A i \in 1..Len(events) :
        events[i].sig = "progress" =>
            /\ 0 <= events[i].percent[1]
            /\ events[i].percent[1] <= 100 * events[i].percent[2]

\* the positions of run() before it has returned
RunLines == {"L100", "L128", "L132", "L134", "L135", "L138", "L139", "L141", "L143", "L145"}

\* a step of run() in worker t
RunStep(t) ==
    \/ run_prepare(t) \/ run_extract_info(t) \/ run_download(t) \/ run_check_cancelled(t)
    \/ run_emit_canceled(t) \/ run_emit_completed(t) \/ run_except_download_error(t)
    \/ run_emit_canceled_error(t) \/ run_emit_failed(t) \/ run_emit_error(t)

\* the signals of the given kinds that worker t emits in this step
EmittedBy(t, kinds) ==
    IF Len(events') > Len(events)
    THEN SelectSeq(SubSeq(events', Len(events) + 1, Len(events')),
                   LAMBDA e : e.src = t /\ e.sig \in kinds)
    ELSE <<>>

\* C20: run() emits its finished signal once, in the step in which it returns,
\* and returns in no other way: from every position of run(), whether reached
\* normally or by a DownloadError or another exception of makedirs, of
\* extract_info or of the download, run() can go on and goes on inside run()
\* or to its return; the step to the return emits one finished signal; no
\* other step emits one; and a worker emits a log or progress signal only
\* before that step.
C20_OneFinishedPerRun ==
    /\ [](\A t \in Slots : tasks[t].pc \in RunLines => ENABLED <<RunStep(t)>>_vars)
    /\ [][ \A t \in Slots :
              /\ tasks[t].pc \in RunLines => tasks'[t].pc \in RunLines \cup {"returned"}
              /\ (tasks[t].pc \in RunLines /\ tasks'[t].pc = "returned")
                 => Len(EmittedBy(t, {"finished"})) = 1
              /\ EmittedBy(t, {"finished"}) # <<>>
                 => tasks[t].pc \in RunLines /\ tasks'[t].pc = "returned"
              /\ EmittedBy(t, {"log", "progress"}) # <<>>
                 => tasks[t].pc \in RunLines /\ tasks'[t].pc \in RunLines
          ]_vars

\* run() has returned after os.makedirs failed, and its one finished signal is
\* waiting to be handled
C20_Witness ==
    \E t \in Slots :
        /\ tasks[t].pc = "returned"
        /\ tasks[t].exc = "Permission denied"
        /\ Cardinality({i \in 1..Len(events) :
                            events[i].sig = "finished" /\ events[i].src = t}) = 1
        /\ \A i \in 1..Len(events) : events[i].sig # "log"

\* C21: with every started worker going on to its finished signal and its
\* thread to its end, and every queued delivery handled, a running queue stops
\* running in the end; and a row that is Queued while the queue runs becomes
\* Done or Failed while the queue still runs, unless a stop comes to be
\* requested (by the user, or by on_item_finished for a Canceled outcome).
C21_RunTerminates ==
    /\ queue_running ~> ~queue_running
    /\ \A r \in 1..MaxEntries :
          (queue_running /\ r \in Rows /\ entries[r].status = "Queued")
          ~> \/ queue_running /\ r \in Rows /\ entries[r].status \in {"Done", "Failed"}
             \/ stop_queue_requested

\* a run ended as completed with both rows finished and none Canceled
C21_Witness ==
    /\ ~queue_running
    /\ status_label.text = "Queue completed."
    /\ Len(entries) = 2
    /\ \A r \in Rows : entries[r].status \in {"Done", "Failed"}
    /\ \E r \in Rows : entries[r].status = "Done"

(***************************************************************************)
(* C22: _start_next_item tests the stop flag before it looks for a Queued  *)
(* row.  At the scheduling decision (on_thread_finished while the queue    *)
(* runs) a set stop flag always ends the run as "Queue stopped.", whether  *)
(* or not a Queued row remains; the run ends as "Queue completed." only    *)
(* with the flag clear and no row Queued; otherwise the first Queued row   *)
(* is started.  Every end of a run leaves queue_running false, current_row *)
(* None and the preset combo of every row enabled.                         *)
(***************************************************************************)
SchedulingDecision == HandlesThreadFinished /\ queue_running

Finalizes == queue_running /\ ~queue_running'

C22_StopBeforeSearch ==
    [][/\ SchedulingDecision /\ stop_queue_requested
          => /\ Finalizes
             /\ status_label' = [text |-> "Queue stopped.", state |-> "warning"]
       /\ SchedulingDecision /\ ~stop_queue_requested /\ RowsWith("Queued") = {}
          => /\ Finalizes
             /\ status_label' = [text |-> "Queue completed.", state |-> "success"]
       /\ SchedulingDecision /\ ~stop_queue_requested /\ RowsWith("Queued") # {}
          => /\ queue_running'
             /\ current_row' = next_queued_row(entries)
       /\ Finalizes
          => /\ SchedulingDecision
             /\ current_row' = NoRow
             /\ \A r \in 1..Len(entries') : entries'[r].quality_enabled
             /\ status_label'.text = "Queue completed."
                => ~stop_queue_requested /\ RowsWith("Queued") = {}
             /\ status_label'.text \in {"Queue completed.", "Queue stopped."}]_vars

\* a run that was stopped with no row left Queued ended as "Queue stopped."
C22_Witness ==
    /\ ~queue_running
    /\ current_row = NoRow
    /\ status_label = [text |-> "Queue stopped.", state |-> "warning"]
    /\ Rows # {}
    /\ RowsWith("Queued") = {}
    /\ \A r \in Rows : entries[r].quality_enabled

(***************************************************************************)
(* C23: from start_queue until the run ends the preset combo of every row  *)
(* of the table is disabled, the rows enqueued while the queue runs        *)
(* included, so that no row's preset changes while queue_running is true.  *)
(***************************************************************************)
PresetsLocked == \A r \in Rows : ~entries[r].quality_enabled

C23_PresetLockedWhileRunning ==
    /\ [](queue_running => PresetsLocked)
    /\ [][queue_running /\ queue_running'
          => \A r \in Rows : entries'[r].quality = entries[r].quality]_vars

(***************************************************************************)
(* C24: the flag that cancel() sets on a worker stays set for as long as   *)
(* the worker object exists, and _progress_hook tests it first: a call of  *)
(* the hook on a cancelled worker raises DownloadError("Download canceled  *)
(* by user.") into the library and posts no signal at all.                 *)
(***************************************************************************)
\* the slot of worker t holds the same worker object after this step
SameWorker(t) == tasks[t].pc # "none" /\ tasks'[t].pc # "none" /\ ~Created(t)

\* this step is a call of the progress hook of worker t
HookInvoked(t) == \E data \in ProgressData : progress_hook(t, data)

C24_CancelLatch ==
    [][\A t \in Slots :
          /\ tasks[t].cancelled /\ SameWorker(t) => tasks'[t].cancelled
          /\ tasks[t].cancelled /\ HookInvoked(t)
             => /\ events' = events
                /\ tasks'[t].pc = "L139"
                /\ tasks'[t].exc = "Download canceled by user."
                /\ tasks'[t].hooks = tasks[t].hooks]_vars

\* a hook call that came after cancel() raised, after an earlier call, before
\* cancel(), had emitted progress
C24_Witness ==
    \E t \in Slots :
        /\ tasks[t].cancelled
        /\ tasks[t].pc = "L139"
        /\ tasks[t].exc = "Download canceled by user."
        /\ tasks[t].hooks = 1

(***************************************************************************)
(* C25: no step of a worker (run(), the progress hook, the end of its      *)
(* thread) changes the table rows, queue_running, stop_queue_requested,    *)
(* current_row, the worker/thread attributes, the output folder or the     *)
(* status label: a worker step only moves the worker on and posts          *)
(* progress, log, finished, quit and thread-finished deliveries behind     *)
(* those already waiting.  The controller state changes only in steps of   *)
(* the GUI thread.                                                         *)
(***************************************************************************)
ControllerState == <<entries, queue_running, stop_queue_requested, current_row, worker,
                     thread, output_input, status_label>>

\* the deliveries waiting before this step are still waiting, in the same order
OnlyPosts == Len(events') >= Len(events) /\ SubSeq(events', 1, Len(events)) = events

C25_WorkerLeavesController ==
    [][/\ WorkerAction
          => /\ UNCHANGED ControllerState
             /\ OnlyPosts
             /\ \A i \in 1..Len(Posted) :
                   Posted[i].sig \in {"progress", "log", "finished", "quit", "thread_finished"}
       /\ ControllerState' # ControllerState => UserAction \/ SignalDelivery]_vars

\* run() has returned while the controller still shows its row as Downloading
\* at 0%: nothing the worker did is in the table until its signals are handled
C25_Witness ==
    \E t \in Slots :
        /\ tasks[t].pc = "returned"
        /\ worker = t
        /\ current_row # NoRow
        /\ entries[current_row].status = "Downloading"
        /\ entries[current_row].progress = "0%"
        /\ \E i \in 1..Len(events) : events[i].sig = "progress" /\ events[i].src = t
        /\ \E i \in 1..Len(events) : events[i].sig = "finished" /\ events[i].src = t

(***************************************************************************)
(* C26: when on_item_finished classifies the outcome of the current row as *)
(* Canceled (a finished signal without success whose lowered message       *)
(* contains "cancel") it sets stop_queue_requested itself, whether or not  *)
(* the user asked for a stop.  A set flag stays set while the queue runs,  *)
(* no worker is created while it is set, and the run ends, and ends as     *)
(* "Queue stopped.".                                                       *)
(***************************************************************************)
ClassifiedCanceled ==
    /\ HandlesFinished
    /\ current_row # NoRow
    /\ ~Head(events).success
    /\ Contains(Lower(Head(events).message), "cancel")

QueueStopped == ~queue_running /\ status_label = [text |-> "Queue stopped.", state |-> "warning"]

C26_CanceledStopsQueue ==
    /\ [][/\ ClassifiedCanceled
             => /\ entries'[current_row].status = "Canceled"
                /\ stop_queue_requested'
                /\ queue_running'
          /\ \A r \in Rows :
                HandlesFinished /\ r = current_row /\ entries'[r].status = "Canceled"
                => ClassifiedCanceled
          /\ queue_running /\ stop_queue_requested
             => /\ \A t \in Slots : ~Created(t)
                /\ \A r \in Rows : entries[r].status = "Queued" => entries'[r].status = "Queued"
                /\ \/ queue_running' /\ stop_queue_requested'
                   \/ QueueStopped']_vars
    /\ (queue_running /\ stop_queue_requested) ~> QueueStopped

\* the library failed with a text that mentions cancel, the user having asked
\* for nothing: cancel() was not called on the worker, yet the row is Canceled
\* and the stop flag is set, with another row still Queued
C26_Witness ==
    /\ queue_running
    /\ stop_queue_requested
    /\ worker # NoWorker
    /\ ~tasks[worker].cancelled
    /\ current_row # NoRow
    /\ entries[current_row].status = "Canceled"
    /\ status_label.text = "Download failed: ERROR: Upload CANCELLED by owner"
    /\ RowsWith("Queued") # {}

(***************************************************************************)
(* C27: every progress and finished signal is applied to the row its       *)
(* worker was started for.  A worker is created for the row current_row is *)
(* set to in the same step; for as long as the worker object exists it is  *)
(* the bound worker, current_row is not moved and no row is removed or     *)
(* shifted; and a progress or finished signal is handled while its sender  *)
(* exists, and changes no row but current_row.                             *)
(***************************************************************************)
\* this step handles a progress or finished signal sent by worker t
HandlesSignalOf(t) ==
    /\ events # <<>>
    /\ Head(events).sig \in {"progress", "finished"}
    /\ Head(events).src = t
    /\ events' = Tail(events)

C27_SignalsReachTheirRow ==
    [][\A t \in Slots :
          /\ Created(t)
             => /\ worker' = t
                /\ current_row' \in 1..Len(entries')
                /\ entries'[current_row'].status = "Downloading"
                /\ entries'[current_row'].url = tasks'[t].url
          /\ SameWorker(t)
             => /\ worker = t /\ worker' = t
                /\ current_row' = current_row
                /\ Len(entries') >= Len(entries)
                /\ \A r \in Rows : entries'[r].url = entries[r].url
          /\ HandlesSignalOf(t)
             => /\ SameWorker(t)
                /\ current_row \in Rows
                /\ \A r \in Rows \ {current_row} : entries'[r] = entries[r]
                /\ Head(events).sig = "progress"
                   => entries'[current_row].progress = PercentText(Head(events).percent)
                /\ Head(events).sig = "finished"
                   => entries'[current_row].status \in Terminal]_vars

\* the progress of the worker started for the second row is shown in the
\* second row, the first row, finished earlier, keeping what it showed
C27_Witness ==
    /\ Len(entries) = 2
    /\ current_row = 2
    /\ worker # NoWorker
    /\ entries[2].status = "Downloading"
    /\ entries[2].progress # "0%"
    /\ entries[1].status = "Failed"
    /\ entries[1].progress = "0%"

(***************************************************************************)
(* C28: between the handlers of the GUI thread, queue_running implies that *)
(* a worker is bound (self.worker is not None).  So the branch of          *)
(* cancel_download for a running queue without a worker is never taken,    *)
(* and cancel_download called while the queue does not run changes         *)
(* nothing.                                                                *)
(***************************************************************************)
\* the branch "elif self.queue_running" of cancel_download would be taken
StopWithoutWorker == worker = NoWorker /\ queue_running

C28_RunningHasWorker ==
    /\ [](queue_running => worker # NoWorker /\ tasks[worker].pc # "none")
    /\ [](~StopWithoutWorker)
    /\ [][StopWithoutWorker => ~cancel_download]_vars
    /\ [][~queue_running /\ cancel_download => UNCHANGED vars]_vars

\* the thread of the bound worker has ended and on_thread_finished is still to
\* be called: the queue runs, a stop is requested and the worker is still bound
C28_Witness ==
    /\ queue_running
    /\ stop_queue_requested
    /\ worker # NoWorker
    /\ tasks[worker].pc = "finished"
    /\ Delivered("thread_finished")

(***************************************************************************)
(* C29: between the handlers of the GUI thread, whenever queue_running is  *)
(* false no worker or thread is bound or exists, current_row is None, no   *)
(* row is Downloading and stop_queue_requested is false.  So start_queue,  *)
(* called on an idle queue with an output folder and a Queued row, always  *)
(* starts the first Queued row with the stop flag clear, whatever stop or  *)
(* cancellation an earlier run went through.                               *)
(***************************************************************************)
Idle ==
    /\ worker = NoWorker
    /\ thread = NoWorker
    /\ \A t \in Slots : tasks[t].pc = "none"
    /\ events = <<>>
    /\ current_row = NoRow
    /\ RowsWith("Downloading") = {}
    /\ ~stop_queue_requested

\* start_queue gets past its three tests
CanStart == ~queue_running /\ Strip(output_input) # "" /\ next_queued_row(entries) # NoRow

C29_IdleIsClean ==
    /\ [](~queue_running => Idle)
    /\ [](CanStart => ENABLED (start_queue /\ queue_running'))
    /\ [][CanStart /\ start_queue
          => /\ queue_running'
             /\ ~stop_queue_requested'
             /\ current_row' = next_queued_row(entries)
             /\ entries'[current_row'].status = "Downloading"
             /\ \E t \in Slots : Created(t) /\ worker' = t]_vars

\* a run that ended with the first row Canceled, which stops the queue, is
\* followed by a run that has started the second row
C29_Witness ==
    /\ queue_running
    /\ ~stop_queue_requested
    /\ Len(entries) = 2
    /\ entries[1].status = "Canceled"
    /\ entries[2].status = "Downloading"
    /\ current_row = 2

(***************************************************************************)
(* C30 as claimed: no worker is created with a blank output directory; the *)
(* non-blank folder start_queue has tested is what every later item of the *)
(* run is started with, whatever is typed into the output folder field     *)
(* while the queue runs.                                                   *)
(***************************************************************************)
C30_NoBlankOutputDir ==
    [][\A t \in Slots : Created(t) => Strip(tasks'[t].output_dir) # ""]_vars

=============================================================================
